---- MODULE Spec2Model ----
(***************************************************************************)
(* Story studio: generation orchestration.                                 *)
(*                                                                         *)
(* The App component (src/unnamed/part_005, the current App.tsx) keeps the *)
(* project in React state and runs asynchronous jobs against the           *)
(* generative service (src/unnamed/part_007, the current geminiService.ts).*)
(* A handler runs to its first await in one step; the continuation after   *)
(* the await runs in one step when the request resolves.  setProject with  *)
(* an updater function is applied to the latest project; a handler's own   *)
(* `project` is the value rendered when the handler was invoked.           *)
(*                                                                         *)
(* The tab shown (currentTab) is not part of the state: a tab is always one *)
(* click away and the click changes nothing else, so each button is guarded*)
(* by its own rendering and disabled conditions only.                      *)
(*                                                                         *)
(* Scene positions are 1-based here (position = sceneIndex + 1), and the   *)
(* null loading index is NoIndex.  Opaque values (texts, payloads) are     *)
(* tagged with the id of the request that produced them, 0 = undefined.    *)
(***************************************************************************)
EXTENDS Integers, Sequences, FiniteSets, TLC

\* Bounds of the model.
MaxScenes == 2      \* a script response holds 1..MaxScenes scenes
MaxReqs == 3        \* requests the user may start (batch items are not counted)

\* null of audioLoadingIndex / imageLoadingIndex
NoIndex == 0

VARIABLES
    project,              \* useState<Project>
    loading,              \* useState(false)
    error,                \* useState<string | null>
    audioLoadingIndex,    \* useState<number | null>
    imageLoadingIndex,    \* useState<number | null>
    generatingAllAudio,   \* useState(false)
    generatingAllImages,  \* useState(false)
    jobs,                 \* requests to the service that have not resolved yet
    audioBatch,           \* loop state of handleGenerateAllAudio
    imageBatch,           \* loop state of handleGenerateAllImages
    nextReq,              \* id of the next request (ids are in start order)
    resetReq,             \* history: nextReq at the last start over
    rArgs,                \* callWithRetry: the retries and delay of the outermost call
    rPlan,                \* what fn does at its 1st, 2nd, ... call
    rPc,                  \* where the call stands
    rRetries,             \* retries of the current (recursive) call
    rDelay,               \* delay of the current (recursive) call
    rAttempts,            \* calls of fn made so far
    rWaits,               \* the delays waited so far, in order
    rResult,              \* the value returned or the error thrown
    envKey,               \* process.env.API_KEY (0 = not set)
    gReq,                 \* the generate* call in progress: what it asks for, with which key
    gCalls,               \* the calls of ai.models.generateContent it made, in order
    pIn,                  \* image prompt: the scene's names, the stored characters, the texts
    pSingle,              \* what handleGenerateImage resolves and generateImage builds from pIn
    pBatch,               \* what handleGenerateAllImages resolves and generateImage builds from pIn
    wIn,                  \* addWavHeader: the samples and the sample rate
    wOut                  \* the bytes it returns

appVars == <<project, loading, error, audioLoadingIndex, imageLoadingIndex,
             generatingAllAudio, generatingAllImages, jobs, audioBatch,
             imageBatch, nextReq, resetReq>>

retryVars == <<rArgs, rPlan, rPc, rRetries, rDelay, rAttempts, rWaits, rResult>>

svcVars == <<envKey, gReq, gCalls>>

promptVars == <<pIn, pSingle, pBatch>>

wavVars == <<wIn, wOut>>

\* The variables of the pure functions, and all variables outside the App
\* and callWithRetry.
pureVars == <<promptVars, wavVars>>

libVars == <<svcVars, pureVars>>

vars == <<appVars, retryVars, libVars>>

-----------------------------------------------------------------------------
\* Data model (src/types.ts)

\* A scene none of whose fields is defined: what reading a missing array
\* entry and spreading it yields.
EmptyScene == [sceneNumber |-> 0, text |-> 0, audioData |-> 0, imageUrl |-> 0]

\* project.output === null
NoOutput == [title |-> 0, scenes |-> << >>]

HasOutput(p) == p.output # NoOutput

\* getInitialConfig().sceneCount
InitialSceneCount == 3

\* The properties of a project that a saved document may lack
\* ("characters" is config.characters).
OptionalFields == {"mediaSettings", "voiceConfig", "imageStyle", "characters"}

\* The project of useState / goHome: initial config and settings, no output.
\* Of the config, the scene count and the character list are kept.  A
\* settings object is a tag, 0 for the initial one (getInitialVoice,
\* getInitialImageStyle, getInitialMediaSettings).  `undefined` names the
\* optional properties the object does not have; the record holds 0 or the
\* empty list in their place.
InitialProject(key) ==
    [config |-> [sceneCount |-> InitialSceneCount, characters |-> << >>],
     voiceConfig |-> 0, imageStyle |-> 0, mediaSettings |-> 0,
     apiKey |-> key, output |-> NoOutput, undefined |-> {}]

\* The StoryOutput a script response of n scenes parses to: title, summary
\* and the scenes' text fields are tagged with the request, slots are empty.
StoryOutputOf(req, n) ==
    [title |-> req,
     scenes |-> [i \in 1..n |->
                   [sceneNumber |-> i, text |-> req, audioData |-> 0, imageUrl |-> 0]]]

\* scenes[i], undefined beyond the end
At(scenes, i) == IF i <= Len(scenes) THEN scenes[i] ELSE EmptyScene

\* const newScenes = [...scenes]; newScenes[i] = v  (an assignment beyond the
\* end extends the array and leaves holes)
SetAt(scenes, i, v) ==
    [k \in 1..(IF i > Len(scenes) THEN i ELSE Len(scenes)) |->
        IF k = i THEN v ELSE At(scenes, k)]

\* Positions the scene list renders a card (and its buttons) for: map skips holes.
Rendered(p) == {k \in 1..Len(p.output.scenes) : p.output.scenes[k] # EmptyScene}

-----------------------------------------------------------------------------
\* The setProject updaters

\* handleGenerateAudio: newScenes[sceneIndex] = { ...scene, audioData }
MergeSingleAudio(p, j, payload) ==
    IF ~HasOutput(p) THEN p
    ELSE [p EXCEPT !.output.scenes = SetAt(@, j.idx, [j.scene EXCEPT !.audioData = payload])]

\* handleGenerateImage: newScenes[sceneIndex] = { ...scene, imageUrl }
MergeSingleImage(p, j, payload) ==
    IF ~HasOutput(p) THEN p
    ELSE [p EXCEPT !.output.scenes = SetAt(@, j.idx, [j.scene EXCEPT !.imageUrl = payload])]

\* A loop that keeps the result to itself instead of calling setProject.
MergeBatchAudio_NotCommitted(p, i, payload) == p

\* handleGenerateAllAudio: newScenes[i] = { ...newScenes[i], audioData }
MergeBatchAudio(p, i, payload) ==
    IF ~HasOutput(p) THEN p
    ELSE [p EXCEPT !.output.scenes =
            SetAt(@, i, [At(p.output.scenes, i) EXCEPT !.audioData = payload])]

\* handleGenerateAllImages: newScenes[i] = { ...newScenes[i], imageUrl }
MergeBatchImage(p, i, payload) ==
    IF ~HasOutput(p) THEN p
    ELSE [p EXCEPT !.output.scenes =
            SetAt(@, i, [At(p.output.scenes, i) EXCEPT !.imageUrl = payload])]

-----------------------------------------------------------------------------
\* Requests in flight

\* A request: its id, what it asks for, whether a generate-all loop awaits
\* it, the scene position, the scene object the handler read before the
\* await, and (history) the single-scene jobs of the other kind for the same
\* position that were in flight at some time together with it.
Job(id, kind, batch, idx, scene, overlapped) ==
    [id |-> id, kind |-> kind, batch |-> batch, idx |-> idx, scene |-> scene,
     overlapped |-> overlapped]

\* The request of generateScript: generateStory(project.config, ...) is called
\* with the config of the render the handler was invoked in.
ScriptJob(id, config) ==
    [id |-> id, kind |-> "script", batch |-> FALSE, idx |-> 0, scene |-> EmptyScene,
     overlapped |-> {}, config |-> config]

OtherKind(kind) == IF kind = "audio" THEN "image" ELSE "audio"

\* The single-scene jobs of the other kind in flight for the same position.
Peers(kind, idx) ==
    {j \in jobs : ~j.batch /\ j.kind = OtherKind(kind) /\ j.idx = idx}

\* jobs after a single-scene job of this kind starts for idx
WithSingle(kind, idx, scene) ==
    {IF j \in Peers(kind, idx)
        THEN [j EXCEPT !.overlapped = @ \cup {nextReq}] ELSE j : j \in jobs}
    \cup {Job(nextReq, kind, FALSE, idx, scene, {q.id : q \in Peers(kind, idx)})}

\* Loop state of a generate-all handler: the position awaited (n + 1 once the
\* loop is over), the length of the captured scene list, its holes, and
\* (history) the positions whose job succeeded / failed and the script the
\* batch was started over.
IdleBatch == [i |-> 0, n |-> 0, holes |-> {}, ok |-> {}, failed |-> {}, title |-> 0]

\* The next position after i whose scene the loop can read; a hole throws
\* inside the try block and the loop goes on.
NextIndex(i, n, holes) ==
    IF \E k \in (i+1)..n : k \notin holes
        THEN CHOOSE k \in (i+1)..n : k \notin holes /\ \A m \in (i+1)..(k-1) : m \in holes
        ELSE n + 1

Holes(p) == {k \in 1..Len(p.output.scenes) : p.output.scenes[k] = EmptyScene}

-----------------------------------------------------------------------------
\* callWithRetry (src/unnamed/part_007)

DefaultRetries == 3
DefaultDelay == 1000

\* Bound: the retries argument is drawn from 0..MaxRetriesArg.
MaxRetriesArg == 3

\* The delay arguments tried.
Delays == {DefaultDelay, 250}

\* Texts are sequences of characters.
T429 == <<"4", "2", "9">>
T503 == <<"5", "0", "3">>
TOverloaded == <<"o", "v", "e", "r", "l", "o", "a", "d", "e", "d">>

\* String.prototype.includes
Includes(s, t) ==
    \E i \in 0..(Len(s) - Len(t)) : SubSeq(s, i + 1, i + Len(t)) = t

\* What a call of fn may do: resolve, or reject with an error that has a
\* status (0 = none) and a message (empty = none).
Resolves == [ok |-> TRUE, status |-> 0, message |-> << >>]

Rejects(status, message) == [ok |-> FALSE, status |-> status, message |-> message]

Outcomes ==
    { Resolves,
      Rejects(429, << >>),
      Rejects(0, <<"E", ":", "5", "0", "3", "!">>),
      Rejects(0, <<"i", "s", " ">> \o TOverloaded),
      Rejects(403, <<"d", "e", "n", "i", "e", "d">>),
      Rejects(500, <<"o", "v", "e", "r", "l", "o", "a", "d">>) }

\* The catch branch's isRetryable
isRetryable_StatusOnly(e) == e.status = 429 \/ e.status = 503

isRetryable_Always(e) == TRUE

isRetryable(e) ==
    \/ e.status = 429
    \/ e.status = 503
    \/ (e.message # << >>
        /\ (Includes(e.message, T429) \/ Includes(e.message, T503)
            \/ Includes(e.message, TOverloaded)))

\* if (retries === 0) throw error
Exhausted_OffByOne(retries) == retries <= 1

Exhausted(retries) == retries = 0

\* callWithRetry(fn, retries - 1, delay * 2)
NextDelay_Linear(delay) == delay + DefaultDelay

NextDelay(delay) == delay * 2

\* What the k-th call of fn does.
OutcomeAt(k) == IF k \in DOMAIN rPlan THEN rPlan[k] ELSE Resolves

\* No call of callWithRetry is modelled.
RetryIdle ==
    /\ rArgs = [retries |-> 0, delay |-> 0]
    /\ rPlan = << >>
    /\ rPc = "idle"
    /\ rRetries = 0
    /\ rDelay = 0
    /\ rAttempts = 0
    /\ rWaits = << >>
    /\ rResult = [at |-> 0, outcome |-> Resolves]

\* callWithRetry(fn, retries, delay) has been called and is about to call fn.
RetryInit ==
    /\ rArgs \in [retries : 0..MaxRetriesArg, delay : Delays]
    /\ rPlan \in [1..(MaxRetriesArg + 1) -> Outcomes]
    /\ rPc = "calling"
    /\ rRetries = rArgs.retries
    /\ rDelay = rArgs.delay
    /\ rAttempts = 0
    /\ rWaits = << >>
    /\ rResult = [at |-> 0, outcome |-> Resolves]

\* return await fn()
fnResolves ==
    /\ rPc = "calling"
    /\ OutcomeAt(rAttempts + 1).ok
    /\ rAttempts' = rAttempts + 1
    /\ rResult' = [at |-> rAttempts + 1, outcome |-> OutcomeAt(rAttempts + 1)]
    /\ rPc' = "returned"
    /\ UNCHANGED <<appVars, libVars, rArgs, rPlan, rRetries, rDelay, rWaits>>

\* catch (error): rethrow, or start the timer of setTimeout(res, delay)
fnRejects ==
    /\ rPc = "calling"
    /\ ~OutcomeAt(rAttempts + 1).ok
    /\ rAttempts' = rAttempts + 1
    /\ LET e == OutcomeAt(rAttempts + 1) IN
        IF ~Exhausted(rRetries) /\ isRetryable(e)
            THEN /\ rPc' = "waiting"
                 /\ rWaits' = Append(rWaits, rDelay)
                 /\ UNCHANGED rResult
            ELSE /\ rPc' = "thrown"
                 /\ rResult' = [at |-> rAttempts + 1, outcome |-> e]
                 /\ UNCHANGED rWaits
    /\ UNCHANGED <<appVars, libVars, rArgs, rPlan, rRetries, rDelay>>

\* The timer fires: return callWithRetry(fn, retries - 1, delay * 2)
timerFires ==
    /\ rPc = "waiting"
    /\ rRetries' = rRetries - 1
    /\ rDelay' = NextDelay(rDelay)
    /\ rPc' = "calling"
    /\ UNCHANGED <<appVars, libVars, rArgs, rPlan, rAttempts, rWaits, rResult>>

RetryNext == fnResolves \/ fnRejects \/ timerFires

-----------------------------------------------------------------------------
\* generateStory, generateSpeech, generateImage (src/unnamed/part_007): each
\* is callWithRetry(fn) with the default arguments, and fn builds the client
\* with getAI before it asks a model.

StoryModel == "gemini-3-flash-preview"
SpeechModel == "gemini-2.5-flash-preview-tts"
ProImageModel == "gemini-3-pro-image-preview"
FlashImageModel == "gemini-2.5-flash-image"

Kinds == {"script", "speech", "image"}

\* Keys; 0 is the empty string or undefined.
Keys == {0, 1}

\* getAI: const key = customKey || process.env.API_KEY
KeyOf(customKey) == IF customKey # 0 THEN customKey ELSE envKey

\* new Error("Missing API Key. Please add one in Settings.")
MissingKey ==
    Rejects(0, <<"M", "i", "s", "s", "i", "n", "g", " ", "A", "P", "I", " ", "K", "e", "y">>)

\* A response without the data asked for: "No text returned from Gemini.",
\* "No audio", "No image data returned."
NoData == Rejects(0, <<"N", "o", " ", "d", "a", "t", "a">>)

\* What a call of generateContent may come to.
Responses == Outcomes \cup {NoData}

\* The catch (e) around the pro tier: which failures go on to the flash tier.
FallsBack_TransientOnly(e) == isRetryable(e)

FallsBack(e) == TRUE

\* One call of ai.models.generateContent as the service saw it, with the
\* status of its answer (0 = none).
Call(model, prompt, o) ==
    [model |-> model, prompt |-> prompt, ok |-> o.ok, status |-> o.status]

\* No generate* call is modelled; the build has a default key.
ServiceIdle ==
    /\ envKey = 1
    /\ gReq = [kind |-> "none", apiKey |-> 0, prompt |-> 0]
    /\ gCalls = << >>

\* generate*(..., apiKey) has been called and callWithRetry is about to call fn.
ServiceInit ==
    /\ envKey \in Keys
    /\ gReq \in [kind : Kinds, apiKey : Keys, prompt : {1}]
    /\ gCalls = << >>
    /\ rArgs = [retries |-> DefaultRetries, delay |-> DefaultDelay]
    /\ rPlan = << >>
    /\ rPc = "calling"
    /\ rRetries = DefaultRetries
    /\ rDelay = DefaultDelay
    /\ rAttempts = 0
    /\ rWaits = << >>
    /\ rResult = [at |-> 0, outcome |-> Resolves]

\* The catch branch of callWithRetry for the error e of call `at` of fn.
Caught(e, at) ==
    IF ~Exhausted(rRetries) /\ isRetryable(e)
        THEN /\ rPc' = "waiting"
             /\ rWaits' = Append(rWaits, rDelay)
             /\ UNCHANGED rResult
        ELSE /\ rPc' = "thrown"
             /\ rResult' = [at |-> at, outcome |-> e]
             /\ UNCHANGED rWaits

\* return await ...: fn resolves with the value of the call `at` of fn
Returned(o, at) ==
    /\ rPc' = "returned"
    /\ rResult' = [at |-> at, outcome |-> o]
    /\ UNCHANGED rWaits

\* fn is called: const ai = getAI(apiKey), then its first request
fnStarts ==
    /\ rPc = "calling"
    /\ rAttempts' = rAttempts + 1
    /\ IF KeyOf(gReq.apiKey) = 0
         THEN Caught(MissingKey, rAttempts + 1)
         ELSE /\ rPc' = IF gReq.kind = "image" THEN "pro" ELSE "content"
              /\ UNCHANGED <<rWaits, rResult>>
    /\ UNCHANGED <<appVars, pureVars, envKey, gReq, gCalls, rArgs, rPlan, rRetries, rDelay>>

\* The requests of the form (src/components/StepConfig.tsx):
\* generateStoryIdeas, generateCharacterProfiles, analyzeImage.
FormKinds == {"ideas", "characters", "analysis"}

\* The model each function other than generateImage asks.
ContentModel(kind) ==
    CASE kind = "speech" -> SpeechModel
      [] kind = "analysis" -> FlashImageModel
      [] OTHER -> StoryModel

\* generateStory / generateSpeech and the functions of the form: the one
\* generateContent call of fn answers
contentResponds(o) ==
    /\ rPc = "content"
    /\ gCalls' = Append(gCalls, Call(ContentModel(gReq.kind), gReq.prompt, o))
    /\ IF o.ok THEN Returned(o, rAttempts) ELSE Caught(o, rAttempts)
    /\ UNCHANGED <<appVars, pureVars, envKey, gReq, rArgs, rPlan, rRetries, rDelay, rAttempts>>

\* generateImage: runGeneration('gemini-3-pro-image-preview', ...) answers
proResponds(o) ==
    /\ rPc = "pro"
    /\ gCalls' = Append(gCalls, Call(ProImageModel, gReq.prompt, o))
    /\ IF o.ok THEN Returned(o, rAttempts)
       ELSE IF FallsBack(o)
               THEN /\ rPc' = "flash"
                    /\ UNCHANGED <<rWaits, rResult>>
               ELSE Caught(o, rAttempts)
    /\ UNCHANGED <<appVars, pureVars, envKey, gReq, rArgs, rPlan, rRetries, rDelay, rAttempts>>

\* generateImage: runGeneration('gemini-2.5-flash-image', ...) answers
flashResponds(o) ==
    /\ rPc = "flash"
    /\ gCalls' = Append(gCalls, Call(FlashImageModel, gReq.prompt, o))
    /\ IF o.ok THEN Returned(o, rAttempts) ELSE Caught(o, rAttempts)
    /\ UNCHANGED <<appVars, pureVars, envKey, gReq, rArgs, rPlan, rRetries, rDelay, rAttempts>>

ServiceNext ==
    \/ fnStarts
    \/ \E o \in Responses : contentResponds(o)
    \/ \E o \in Responses : proResponds(o)
    \/ \E o \in Responses : flashResponds(o)
    \/ timerFires

-----------------------------------------------------------------------------
\* The image prompt: the active characters of a scene (handleGenerateImage,
\* handleGenerateAllImages in src/unnamed/part_005) and the prompt
\* generateImage builds (src/unnamed/part_007).  A prompt is the sequence of
\* its paragraphs; the texts the user or the script supplied are tags.

\* Bounds: the stored characters and the names a scene lists.
MaxChars == 2
MaxNames == 2

\* Names are sequences of letters.
NamePool == {<< >>, <<"A">>, <<"a", "l">>, <<"A", "L">>, <<"L", "a">>}

\* Character.description values
Descriptions == {3, 4}

SeqsUpTo(S, n) == UNION {[1..k -> S] : k \in 0..n}

\* String.prototype.toLowerCase
toLowerCase(name) ==
    [i \in 1..Len(name) |->
        CASE name[i] = "A" -> "a" [] name[i] = "L" -> "l" [] OTHER -> name[i]]

\* A filter that leaves out the characters that have no name yet.
activeChars_NamedOnly(characterNames, characters) ==
    SelectSeq(characters, LAMBDA c :
        /\ c.name # << >>
        /\ \E i \in 1..Len(characterNames) :
              \/ Includes(toLowerCase(characterNames[i]), toLowerCase(c.name))
              \/ Includes(toLowerCase(c.name), toLowerCase(characterNames[i])))

\* handleGenerateImage: project.config.characters.filter(c =>
\*   scene.characterNames?.some(n => n.toLowerCase().includes(c.name.toLowerCase())
\*                                || c.name.toLowerCase().includes(n.toLowerCase())))
\* (characterNames undefined behaves as the empty list)
activeChars(characterNames, characters) ==
    SelectSeq(characters, LAMBDA c :
        \E i \in 1..Len(characterNames) :
            \/ Includes(toLowerCase(characterNames[i]), toLowerCase(c.name))
            \/ Includes(toLowerCase(c.name), toLowerCase(characterNames[i])))

\* A filter that looks for the character's name inside the scene's name only.
activeCharsOfBatch_OneWay(characterNames, characters) ==
    SelectSeq(characters, LAMBDA c :
        \E i \in 1..Len(characterNames) :
            Includes(toLowerCase(characterNames[i]), toLowerCase(c.name)))

\* handleGenerateAllImages: the same filter, written out in the loop
activeCharsOfBatch(characterNames, characters) ==
    SelectSeq(characters, LAMBDA c :
        \E i \in 1..Len(characterNames) :
            \/ Includes(toLowerCase(characterNames[i]), toLowerCase(c.name))
            \/ Includes(toLowerCase(c.name), toLowerCase(characterNames[i])))

\* A paragraph of the prompt.
Paragraph(part, name, text) == [part |-> part, name |-> name, text |-> text]

\* const characterBlock: a heading and one paragraph per active character,
\* or the empty string
characterBlock(activeCharacters) ==
    IF Len(activeCharacters) > 0
        THEN <<Paragraph("characters", << >>, 0)>>
             \o [i \in 1..Len(activeCharacters) |->
                   Paragraph("character", activeCharacters[i].name,
                             activeCharacters[i].description)]
        ELSE << >>

\* const styleBlock
styleBlock(style) == <<Paragraph("style", << >>, style)>>

\* const sceneBlock
sceneBlock(basePrompt) == <<Paragraph("scene", << >>, basePrompt)>>

\* An assembly in the order of the numbered comments (1. Character Block,
\* 2. Global Style Block).
finalPrompt_CharactersFirst(basePrompt, style, activeCharacters) ==
    <<Paragraph("intro", << >>, 0)>>
    \o characterBlock(activeCharacters) \o styleBlock(style) \o sceneBlock(basePrompt)
    \o <<Paragraph("instruction", << >>, style)>>

\* const finalPrompt: the opening, the three blocks, and the closing
\* INSTRUCTION paragraph, which names style.artStyle again
finalPrompt(basePrompt, style, activeCharacters) ==
    <<Paragraph("intro", << >>, 0)>>
    \o styleBlock(style) \o characterBlock(activeCharacters) \o sceneBlock(basePrompt)
    \o <<Paragraph("instruction", << >>, style)>>

\* No prompt has been built.
NotBuilt == [active |-> << >>, prompt |-> << >>]

PromptIdle ==
    /\ pIn = [characterNames |-> << >>, characters |-> << >>, basePrompt |-> 0, style |-> 0]
    /\ pSingle = NotBuilt
    /\ pBatch = NotBuilt

\* A scene and a character list.
PromptInit ==
    /\ pIn \in [characterNames : SeqsUpTo(NamePool, MaxNames),
                characters : SeqsUpTo([name : NamePool, description : Descriptions], MaxChars),
                basePrompt : {1}, style : {2}]
    /\ pSingle = NotBuilt
    /\ pBatch = NotBuilt

\* handleGenerateImage for the scene: activeChars, then generateImage's prompt
promptSingle ==
    /\ pSingle = NotBuilt
    /\ LET active == activeChars(pIn.characterNames, pIn.characters) IN
         pSingle' = [active |-> active,
                     prompt |-> finalPrompt(pIn.basePrompt, pIn.style, active)]
    /\ UNCHANGED <<appVars, retryVars, svcVars, wavVars, pIn, pBatch>>

\* A turn of handleGenerateAllImages for the scene
promptBatch ==
    /\ pBatch = NotBuilt
    /\ LET active == activeCharsOfBatch(pIn.characterNames, pIn.characters) IN
         pBatch' = [active |-> active,
                    prompt |-> finalPrompt(pIn.basePrompt, pIn.style, active)]
    /\ UNCHANGED <<appVars, retryVars, svcVars, wavVars, pIn, pSingle>>

PromptNext == promptSingle \/ promptBatch

\* addWavHeader has not been called.
WavIdle ==
    /\ wIn = [samples |-> << >>, sampleRate |-> 0]
    /\ wOut = << >>

-----------------------------------------------------------------------------
\* addWavHeader (src/unnamed/part_007).  A buffer is the sequence of its
\* bytes: the byte at offset o is element o + 1.

\* Bound: the samples of a clip.
MaxSamples == 2

\* Int16 samples and sample rates tried (generateSpeech passes 24000).
SampleValues == {-32768, -1, 0, 1, 255, 256, 32767}

SampleRates == {8000, 24000, 44100, 1073741823}

\* string.charCodeAt(i) of the four tags
RIFF == <<82, 73, 70, 70>>
WAVE == <<87, 65, 86, 69>>
FMT == <<102, 109, 116, 32>>
DATA == <<100, 97, 116, 97>>

\* The bytes DataView.setUint16(offset, v, true) stores
Uint16LE(v) == <<(v % 65536) % 256, (v % 65536) \div 256>>

\* The bytes DataView.setUint32(offset, v, true) stores
Uint32LE(v) ==
    <<v % 256, (v \div 256) % 256, (v \div 65536) % 256, (v \div 16777216) % 256>>

\* buffer after bytes are stored from offset on (writeString, setUint16,
\* setUint32, Uint8Array.set)
Store(buffer, offset, bytes) ==
    [k \in 1..Len(buffer) |->
        IF k - 1 >= offset /\ k - 1 < offset + Len(bytes)
            THEN bytes[k - offset] ELSE buffer[k]]

\* new Uint8Array(pcmData.buffer): the bytes of an Int16Array that spans its
\* buffer, low byte first
SampleBytes(pcmData) ==
    [k \in 1..(2 * Len(pcmData)) |->
        Uint16LE(pcmData[(k + 1) \div 2])[IF k % 2 = 1 THEN 1 ELSE 2]]

\* A size counted in samples.
DataSize_InSamples(pcmData) == Len(pcmData)

\* const dataSize = pcmData.length * 2
DataSize(pcmData) == Len(pcmData) * 2

addWavHeader(pcmData, sampleRate) ==
    LET numChannels == 1
        bitsPerSample == 16
        byteRate == sampleRate * numChannels * (bitsPerSample \div 8)
        blockAlign == numChannels * (bitsPerSample \div 8)
        dataSize == DataSize(pcmData)
        b0 == [k \in 1..(44 + dataSize) |-> 0]
        b1 == Store(b0, 0, RIFF)
        b2 == Store(b1, 4, Uint32LE(36 + dataSize))
        b3 == Store(b2, 8, WAVE)
        b4 == Store(b3, 12, FMT)
        b5 == Store(b4, 16, Uint32LE(16))
        b6 == Store(b5, 20, Uint16LE(1))
        b7 == Store(b6, 22, Uint16LE(numChannels))
        b8 == Store(b7, 24, Uint32LE(sampleRate))
        b9 == Store(b8, 28, Uint32LE(byteRate))
        b10 == Store(b9, 32, Uint16LE(blockAlign))
        b11 == Store(b10, 34, Uint16LE(bitsPerSample))
        b12 == Store(b11, 36, DATA)
        b13 == Store(b12, 40, Uint32LE(dataSize))
    IN  Store(b13, 44, SampleBytes(pcmData))

\* A clip and a sample rate.
WavInit ==
    /\ wIn \in [samples : SeqsUpTo(SampleValues, MaxSamples), sampleRate : SampleRates]
    /\ wOut = << >>

\* const wavBuffer = addWavHeader(pcmData, sampleRate)
encodeWav ==
    /\ wOut = << >>
    /\ wOut' = addWavHeader(wIn.samples, wIn.sampleRate)
    /\ UNCHANGED <<appVars, retryVars, svcVars, promptVars, wIn>>

WavNext == encodeWav

-----------------------------------------------------------------------------
\* The App with this project and nothing in progress.
AppStart(p) ==
    /\ project = p
    /\ loading = FALSE
    /\ error = "none"
    /\ audioLoadingIndex = NoIndex
    /\ imageLoadingIndex = NoIndex
    /\ generatingAllAudio = FALSE
    /\ generatingAllImages = FALSE
    /\ jobs = {}
    /\ audioBatch = IdleBatch
    /\ imageBatch = IdleBatch
    /\ nextReq = 1
    /\ resetReq = 1

\* useState<Project>: apiKey: ''
AppInit == AppStart(InitialProject(0))

Init == AppInit /\ RetryIdle /\ ServiceIdle /\ PromptIdle /\ WavIdle

-----------------------------------------------------------------------------
\* Start over.  When the confirm dialog is declined the handler returns and
\* nothing changes.
goHome ==
    /\ loading' = FALSE
    /\ audioLoadingIndex' = NoIndex
    /\ imageLoadingIndex' = NoIndex
    /\ error' = "none"
    /\ project' = InitialProject(project.apiKey)
    /\ resetReq' = nextReq
    /\ UNCHANGED <<retryVars, libVars, generatingAllAudio, generatingAllImages, jobs, audioBatch,
                   imageBatch, nextReq>>

\* The "back" link above the script: setProject(p => ({...p, output: null}))
clearOutput ==
    /\ HasOutput(project)
    /\ project' = [project EXCEPT !.output = NoOutput]
    /\ UNCHANGED <<retryVars, libVars, loading, error, audioLoadingIndex, imageLoadingIndex,
                   generatingAllAudio, generatingAllImages, jobs, audioBatch,
                   imageBatch, nextReq, resetReq>>

\* The error banner's close button: setError(null)
dismissError ==
    /\ error # "none"
    /\ error' = "none"
    /\ UNCHANGED <<retryVars, libVars, project, loading, audioLoadingIndex, imageLoadingIndex,
                   generatingAllAudio, generatingAllImages, jobs, audioBatch,
                   imageBatch, nextReq, resetReq>>

\* generateScript up to its await; the form is shown while there is no
\* output and loading is false.  configToUse.characters.length is read
\* before the try block: when the project has no character list the handler
\* throws there, after setLoading(true) and setError(null), and neither the
\* catch nor the finally branch runs.
generateScript ==
    /\ ~HasOutput(project)
    /\ ~loading
    /\ nextReq <= MaxReqs
    /\ loading' = TRUE
    /\ error' = "none"
    /\ IF "characters" \in project.undefined
         THEN UNCHANGED <<jobs, nextReq>>
         ELSE /\ jobs' = jobs \cup {ScriptJob(nextReq, project.config)}
              /\ nextReq' = nextReq + 1
    /\ UNCHANGED <<retryVars, libVars, project, audioLoadingIndex, imageLoadingIndex,
                   generatingAllAudio, generatingAllImages, audioBatch,
                   imageBatch, resetReq>>

\* generateScript after its await: the response parsed to n scenes, or an error.
scriptResolved(j, ok, n) ==
    /\ j \in jobs
    /\ j.kind = "script"
    /\ jobs' = jobs \ {j}
    /\ project' = IF ok THEN [project EXCEPT !.output = StoryOutputOf(j.id, n)] ELSE project
    /\ error' = IF ok THEN error ELSE "script"
    /\ loading' = FALSE
    /\ UNCHANGED <<retryVars, libVars, audioLoadingIndex, imageLoadingIndex, generatingAllAudio,
                   generatingAllImages, audioBatch, imageBatch, nextReq, resetReq>>

-----------------------------------------------------------------------------
\* Single-scene jobs

\* The audio tab reads project.voiceConfig.language when it renders, the
\* visuals tab project.mediaSettings.aspectRatio: without the object the
\* render throws and the tab's buttons are never there.
AudioTabRenders(p) == "voiceConfig" \notin p.undefined

VisualsTabRenders(p) == "mediaSettings" \notin p.undefined

\* A handler that resets the error at its start, as the batch handlers do.
handleGenerateAudio_ClearsError(idx) ==
    /\ HasOutput(project)
    /\ AudioTabRenders(project)
    /\ idx \in Rendered(project)
    /\ ~(audioLoadingIndex = idx \/ generatingAllAudio)
    /\ nextReq <= MaxReqs
    /\ audioLoadingIndex' = idx
    /\ error' = "none"
    /\ jobs' = WithSingle("audio", idx, project.output.scenes[idx])
    /\ nextReq' = nextReq + 1
    /\ UNCHANGED <<retryVars, libVars, project, loading, imageLoadingIndex, generatingAllAudio,
                   generatingAllImages, audioBatch, imageBatch, resetReq>>

handleGenerateAudio(idx) ==
    /\ HasOutput(project)
    /\ AudioTabRenders(project)
    /\ idx \in Rendered(project)
    /\ ~(audioLoadingIndex = idx \/ generatingAllAudio)
    /\ nextReq <= MaxReqs
    /\ audioLoadingIndex' = idx
    /\ jobs' = WithSingle("audio", idx, project.output.scenes[idx])
    /\ nextReq' = nextReq + 1
    /\ UNCHANGED <<retryVars, libVars, project, loading, error, imageLoadingIndex, generatingAllAudio,
                   generatingAllImages, audioBatch, imageBatch, resetReq>>

audioResolved(j, ok) ==
    /\ j \in jobs
    /\ j.kind = "audio"
    /\ ~j.batch
    /\ jobs' = jobs \ {j}
    /\ project' = IF ok THEN MergeSingleAudio(project, j, j.id) ELSE project
    /\ error' = IF ok THEN error ELSE "audio"
    /\ audioLoadingIndex' = NoIndex
    /\ UNCHANGED <<retryVars, libVars, loading, imageLoadingIndex, generatingAllAudio,
                   generatingAllImages, audioBatch, imageBatch, nextReq, resetReq>>

\* project.config.characters.filter(...) is inside the try block: without a
\* character list it throws before the request, the catch branch sets the
\* error and the finally branch resets the index.
handleGenerateImage(idx) ==
    /\ HasOutput(project)
    /\ VisualsTabRenders(project)
    /\ idx \in Rendered(project)
    /\ ~(imageLoadingIndex = idx \/ generatingAllImages)
    /\ nextReq <= MaxReqs
    /\ IF "characters" \in project.undefined
         THEN /\ imageLoadingIndex' = NoIndex
              /\ error' = "image"
              /\ UNCHANGED <<jobs, nextReq>>
         ELSE /\ imageLoadingIndex' = idx
              /\ jobs' = WithSingle("image", idx, project.output.scenes[idx])
              /\ nextReq' = nextReq + 1
              /\ UNCHANGED error
    /\ UNCHANGED <<retryVars, libVars, project, loading, audioLoadingIndex, generatingAllAudio,
                   generatingAllImages, audioBatch, imageBatch, resetReq>>

imageResolved(j, ok) ==
    /\ j \in jobs
    /\ j.kind = "image"
    /\ ~j.batch
    /\ jobs' = jobs \ {j}
    /\ project' = IF ok THEN MergeSingleImage(project, j, j.id) ELSE project
    /\ error' = IF ok THEN error ELSE "image"
    /\ imageLoadingIndex' = NoIndex
    /\ UNCHANGED <<retryVars, libVars, loading, audioLoadingIndex, generatingAllAudio,
                   generatingAllImages, audioBatch, imageBatch, nextReq, resetReq>>

-----------------------------------------------------------------------------
\* Generate-all batches

\* The loop state when a batch starts over project p.
BatchOver(p) ==
    [i |-> NextIndex(0, Len(p.output.scenes), Holes(p)),
     n |-> Len(p.output.scenes), holes |-> Holes(p),
     ok |-> {}, failed |-> {}, title |-> p.output.title]

\* The loop state when every turn of a batch over project p throws before
\* its request.
BatchThrown(p) ==
    [BatchOver(p) EXCEPT !.i = Len(p.output.scenes) + 1,
                         !.failed = (1..Len(p.output.scenes)) \ Holes(p)]

\* A loop that leaves at the first failure.
BatchStep_StopsAtFailure(b, ok) ==
    [b EXCEPT !.i = IF ok THEN NextIndex(b.i, b.n, b.holes) ELSE b.n + 1,
              !.ok = IF ok THEN @ \cup {b.i} ELSE @,
              !.failed = IF ok THEN @ ELSE @ \cup {b.i}]

\* The loop state after the job awaited at position b.i resolved.
BatchStep(b, ok) ==
    [b EXCEPT !.i = NextIndex(b.i, b.n, b.holes),
              !.ok = IF ok THEN @ \cup {b.i} ELSE @,
              !.failed = IF ok THEN @ ELSE @ \cup {b.i}]

handleGenerateAllAudio ==
    /\ HasOutput(project)
    /\ AudioTabRenders(project)
    /\ ~generatingAllAudio
    /\ nextReq <= MaxReqs
    /\ error' = "none"
    /\ LET b == BatchOver(project) IN
        /\ audioBatch' = b
        /\ generatingAllAudio' = (b.i <= b.n)
        /\ audioLoadingIndex' = IF b.i <= b.n THEN b.i ELSE NoIndex
        /\ jobs' = IF b.i <= b.n
                     THEN jobs \cup {Job(nextReq, "audio", TRUE, b.i, EmptyScene, {})}
                     ELSE jobs
        /\ nextReq' = IF b.i <= b.n THEN nextReq + 1 ELSE nextReq
    /\ UNCHANGED <<retryVars, libVars, project, loading, imageLoadingIndex, generatingAllImages,
                   imageBatch, resetReq>>

\* One turn of the loop of handleGenerateAllAudio after its await: merge or
\* catch, then the next scene's request or the end of the loop.
audioBatchResolved(j, ok) ==
    /\ j \in jobs
    /\ j.kind = "audio"
    /\ j.batch
    /\ project' = IF ok THEN MergeBatchAudio(project, j.idx, j.id) ELSE project
    /\ LET b == BatchStep(audioBatch, ok) IN
        /\ audioBatch' = b
        /\ generatingAllAudio' = (b.i <= b.n)
        /\ audioLoadingIndex' = IF b.i <= b.n THEN b.i ELSE NoIndex
        /\ jobs' = IF b.i <= b.n
                     THEN (jobs \ {j}) \cup {Job(nextReq, "audio", TRUE, b.i, EmptyScene, {})}
                     ELSE jobs \ {j}
        /\ nextReq' = IF b.i <= b.n THEN nextReq + 1 ELSE nextReq
    /\ UNCHANGED <<retryVars, libVars, loading, error, imageLoadingIndex, generatingAllImages,
                   imageBatch, resetReq>>

\* Without a character list every turn of the loop throws at
\* project.config.characters.filter(...) and is caught: no request is made.
handleGenerateAllImages ==
    /\ HasOutput(project)
    /\ VisualsTabRenders(project)
    /\ ~generatingAllImages
    /\ nextReq <= MaxReqs
    /\ error' = "none"
    /\ LET b == IF "characters" \in project.undefined
                  THEN BatchThrown(project) ELSE BatchOver(project) IN
        /\ imageBatch' = b
        /\ generatingAllImages' = (b.i <= b.n)
        /\ imageLoadingIndex' = IF b.i <= b.n THEN b.i ELSE NoIndex
        /\ jobs' = IF b.i <= b.n
                     THEN jobs \cup {Job(nextReq, "image", TRUE, b.i, EmptyScene, {})}
                     ELSE jobs
        /\ nextReq' = IF b.i <= b.n THEN nextReq + 1 ELSE nextReq
    /\ UNCHANGED <<retryVars, libVars, project, loading, audioLoadingIndex, generatingAllAudio,
                   audioBatch, resetReq>>

imageBatchResolved(j, ok) ==
    /\ j \in jobs
    /\ j.kind = "image"
    /\ j.batch
    /\ project' = IF ok THEN MergeBatchImage(project, j.idx, j.id) ELSE project
    /\ LET b == BatchStep(imageBatch, ok) IN
        /\ imageBatch' = b
        /\ generatingAllImages' = (b.i <= b.n)
        /\ imageLoadingIndex' = IF b.i <= b.n THEN b.i ELSE NoIndex
        /\ jobs' = IF b.i <= b.n
                     THEN (jobs \ {j}) \cup {Job(nextReq, "image", TRUE, b.i, EmptyScene, {})}
                     ELSE jobs \ {j}
        /\ nextReq' = IF b.i <= b.n THEN nextReq + 1 ELSE nextReq
    /\ UNCHANGED <<retryVars, libVars, loading, error, audioLoadingIndex, generatingAllAudio,
                   audioBatch, resetReq>>

-----------------------------------------------------------------------------
Next ==
    \/ goHome
    \/ clearOutput
    \/ dismissError
    \/ generateScript
    \/ \E j \in jobs, ok \in BOOLEAN, n \in 1..MaxScenes : scriptResolved(j, ok, n)
    \/ \E idx \in 1..(MaxScenes + 1) : handleGenerateAudio(idx)
    \/ \E j \in jobs, ok \in BOOLEAN : audioResolved(j, ok)
    \/ \E idx \in 1..(MaxScenes + 1) : handleGenerateImage(idx)
    \/ \E j \in jobs, ok \in BOOLEAN : imageResolved(j, ok)
    \/ handleGenerateAllAudio
    \/ \E j \in jobs, ok \in BOOLEAN : audioBatchResolved(j, ok)
    \/ handleGenerateAllImages
    \/ \E j \in jobs, ok \in BOOLEAN : imageBatchResolved(j, ok)

Spec == Init /\ [][Next]_vars

\* One call of callWithRetry, for every retries, delay and behaviour of fn.
RetrySpecInit == AppInit /\ RetryInit /\ ServiceIdle /\ PromptIdle /\ WavIdle

RetrySpec == RetrySpecInit /\ [][RetryNext]_vars

\* One call of generateStory, generateSpeech or generateImage, for every key
\* setting and every behaviour of the service.
ServiceSpecInit == AppInit /\ ServiceInit /\ PromptIdle /\ WavIdle

ServiceSpec == ServiceSpecInit /\ [][ServiceNext]_vars

\* The prompt of one scene, built by the single-scene handler and by the
\* batch, for every scene and character list within the bounds.
PromptSpecInit == AppInit /\ RetryIdle /\ ServiceIdle /\ PromptInit /\ WavIdle

PromptSpec == PromptSpecInit /\ [][PromptNext]_vars

\* One call of addWavHeader, for every clip and sample rate within the bounds.
WavSpecInit == AppInit /\ RetryIdle /\ ServiceIdle /\ PromptIdle /\ WavInit

WavSpec == WavSpecInit /\ [][WavNext]_vars

-----------------------------------------------------------------------------
\* The script response in detail (generateStory's fn, then generateScript's
\* continuation).  scriptResolved above is scriptResponded for the responses
\* that parse to scenes numbered 1..n with every field present.

\* The scene counts the slider is moved to (it ranges over 1..10).
SceneCounts == 1..MaxScenes

\* The numbering 1, 2, ..., n
Dense(n) == [i \in 1..n |-> i]

\* The sceneNumber values of a response's scenes, in order: for every length
\* the dense numbering, the same in descending order, and one that starts at 2.
Numberings ==
    UNION {{Dense(n), [i \in 1..n |-> n + 1 - i], [i \in 1..n |-> i + 1]} : n \in 0..MaxScenes}

\* What the request of generateStory may come to: the call fails ("error"),
\* the response has no text ("empty"), its text is not JSON ("garbled"), or
\* it is JSON ("json") with these scenes, whose required fields are all
\* present (schema) or not.
StoryResponses ==
    [shape : {"error", "empty", "garbled"}, schema : {FALSE}, numbers : {<< >>}]
    \cup [shape : {"json"}, schema : BOOLEAN, numbers : Numberings]

\* fn returns: response.text is there and JSON.parse does not throw
Parses(r) == r.shape = "json"

\* JSON.parse(response.text) as StoryOutput: the parsed value as it is; a
\* scene that lacks required fields has no text.
ParseStory(req, r) ==
    [title |-> req,
     scenes |-> [i \in 1..Len(r.numbers) |->
                   [sceneNumber |-> r.numbers[i], text |-> IF r.schema THEN req ELSE 0,
                    audioData |-> 0, imageUrl |-> 0]]]

\* A catch branch that resets the output.
ScriptFailed_ClearsOutput(p) == [p EXCEPT !.output = NoOutput]

\* The project after generateScript's catch and finally: no setProject there.
ScriptFailed(p) == p

\* generateScript after its await, for response r.
scriptResponded(j, r) ==
    /\ j \in jobs
    /\ j.kind = "script"
    /\ jobs' = jobs \ {j}
    /\ project' = IF Parses(r) THEN [project EXCEPT !.output = ParseStory(j.id, r)]
                               ELSE ScriptFailed(project)
    /\ error' = IF Parses(r) THEN error ELSE "script"
    /\ loading' = FALSE
    /\ UNCHANGED <<retryVars, libVars, audioLoadingIndex, imageLoadingIndex, generatingAllAudio,
                   generatingAllImages, audioBatch, imageBatch, nextReq, resetReq>>

\* The scene count slider of the form, shown while there is no output and
\* loading is false: handleConfigUpdate({ sceneCount })
handleConfigUpdate(k) ==
    /\ ~HasOutput(project)
    /\ ~loading
    /\ project' = [project EXCEPT !.config.sceneCount = k]
    /\ UNCHANGED <<retryVars, libVars, loading, error, audioLoadingIndex, imageLoadingIndex,
                   generatingAllAudio, generatingAllImages, jobs, audioBatch,
                   imageBatch, nextReq, resetReq>>

ScriptNext ==
    \/ goHome
    \/ clearOutput
    \/ dismissError
    \/ generateScript
    \/ \E j \in jobs, r \in StoryResponses : scriptResponded(j, r)
    \/ \E k \in SceneCounts : handleConfigUpdate(k)

\* The script tab: the form, the request and its response.
ScriptSpec == Init /\ [][ScriptNext]_vars

\* The App with the keys in view.  A request gets project.apiKey of the
\* render its handler was invoked in; no action here changes the key (start
\* over keeps it), so that is the key of the current project.  Without any
\* key a request cannot succeed.
Credential == KeyOf(project.apiKey) # 0

\* The default key is set or not; no generate* call is followed in detail.
EnvInit ==
    /\ envKey \in Keys
    /\ gReq = [kind |-> "none", apiKey |-> 0, prompt |-> 0]
    /\ gCalls = << >>

KeyNext ==
    \/ goHome
    \/ clearOutput
    \/ dismissError
    \/ generateScript
    \/ \E j \in jobs, ok \in BOOLEAN, n \in 1..MaxScenes :
          (ok => Credential) /\ scriptResolved(j, ok, n)
    \/ \E idx \in 1..(MaxScenes + 1) : handleGenerateAudio(idx)
    \/ \E j \in jobs, ok \in BOOLEAN : (ok => Credential) /\ audioResolved(j, ok)
    \/ \E idx \in 1..(MaxScenes + 1) : handleGenerateImage(idx)
    \/ \E j \in jobs, ok \in BOOLEAN : (ok => Credential) /\ imageResolved(j, ok)
    \/ handleGenerateAllAudio
    \/ \E j \in jobs, ok \in BOOLEAN : (ok => Credential) /\ audioBatchResolved(j, ok)
    \/ handleGenerateAllImages
    \/ \E j \in jobs, ok \in BOOLEAN : (ok => Credential) /\ imageBatchResolved(j, ok)

\* loadProjectFile / loadFromArchive: setProject({...loaded, ...}) with a
\* project saved with a script of n scenes
LoadedProject(key, n) == [InitialProject(key) EXCEPT !.output = StoryOutputOf(0, n)]

\* The project is new or was opened from a file or the archive, it holds a
\* key or not, and the build has a default key or not.
KeySpecInit ==
    /\ \E key \in Keys :
          \/ AppStart(InitialProject(key))
          \/ \E n \in 1..MaxScenes : AppStart(LoadedProject(key, n))
    /\ RetryIdle /\ EnvInit /\ PromptIdle /\ WavIdle

KeySpec == KeySpecInit /\ [][KeyNext]_vars

-----------------------------------------------------------------------------
\* Opening a saved project: loadProjectFile (a file written by
\* downloadProjectFile, of this or an older version) and loadFromArchive (an
\* entry of savedProjects).

\* Settings the user changed from the initial ones.
Customized == 1

\* A character of config.characters: its id, its description (visual
\* signature) and its reference image, 0 = none.
Character(id, description, image) == [id |-> id, description |-> description, image |-> image]

\* The saved documents: a project with customized settings and one
\* character, with a script of n scenes or none, that lacks the optional
\* properties m.
Documents ==
    {[config |-> [sceneCount |-> InitialSceneCount,
                  characters |-> IF "characters" \in m THEN << >>
                                                       ELSE <<Character(1, 1, 0)>>],
      voiceConfig |-> IF "voiceConfig" \in m THEN 0 ELSE Customized,
      imageStyle |-> IF "imageStyle" \in m THEN 0 ELSE Customized,
      mediaSettings |-> IF "mediaSettings" \in m THEN 0 ELSE Customized,
      apiKey |-> 0,
      output |-> IF n = 0 THEN NoOutput ELSE StoryOutputOf(0, n),
      undefined |-> m] : m \in SUBSET OptionalFields, n \in 0..MaxScenes}

\* { ...initial, ...doc[name] } and doc.config.characters || []: the
\* document's value, the initial one when the document has none
Filled(doc, name, value, initial) == IF name \in doc.undefined THEN initial ELSE value

\* loadFromArchive(saved): setProject({...saved, mediaSettings, imageStyle,
\* voiceConfig, config}), every one of the four filled
loadFromArchive(saved) ==
    /\ project' =
          [saved EXCEPT
             !.mediaSettings = Filled(saved, "mediaSettings", @, InitialProject(0).mediaSettings),
             !.imageStyle = Filled(saved, "imageStyle", @, InitialProject(0).imageStyle),
             !.voiceConfig = Filled(saved, "voiceConfig", @, InitialProject(0).voiceConfig),
             !.config.characters = Filled(saved, "characters", @, << >>),
             !.undefined = {}]
    /\ UNCHANGED <<retryVars, libVars, loading, error, audioLoadingIndex, imageLoadingIndex,
                   generatingAllAudio, generatingAllImages, jobs, audioBatch,
                   imageBatch, nextReq, resetReq>>

\* loadProjectFile, when the reader has the file's text: JSON.parse, then
\* setProject({...loaded, imageStyle}) with the image style filled and
\* nothing else; a text that does not parse sets the error.
loadProjectFile(parses, loaded) ==
    /\ project' =
          IF parses
             THEN [loaded EXCEPT
                     !.imageStyle = Filled(loaded, "imageStyle", @, InitialProject(0).imageStyle),
                     !.undefined = @ \ {"imageStyle"}]
             ELSE project
    /\ error' = IF parses THEN error ELSE "file"
    /\ UNCHANGED <<retryVars, libVars, loading, audioLoadingIndex, imageLoadingIndex,
                   generatingAllAudio, generatingAllImages, jobs, audioBatch,
                   imageBatch, nextReq, resetReq>>

\* The script tab, with projects opened at any time.
ImportNext ==
    \/ goHome
    \/ clearOutput
    \/ dismissError
    \/ generateScript
    \/ \E j \in jobs, ok \in BOOLEAN, n \in 1..MaxScenes : scriptResolved(j, ok, n)
    \/ \E saved \in Documents : loadFromArchive(saved)
    \/ \E parses \in BOOLEAN, loaded \in Documents : loadProjectFile(parses, loaded)

ImportSpec == Init /\ [][ImportNext]_vars

-----------------------------------------------------------------------------
\* The character cards of the form (src/components/StepConfig.tsx).  The
\* component gets project.config as its `config` prop; a handler's `config`
\* is the prop of the render the handler was created in.  onUpdate is
\* handleConfigUpdate.  A description or image is tagged with the id of the
\* edit or request that produced it, 0 = empty.

\* handleConfigUpdate({ characters }): the list replaces the stored one
WithCharacters(p, characters) ==
    [p EXCEPT !.config.characters = characters, !.undefined = @ \ {"characters"}]

\* config.characters.map(c => c.id === id ? { ...c, ...updates } : c)
SetDescription(characters, id, description) ==
    [k \in 1..Len(characters) |->
        IF characters[k].id = id THEN [characters[k] EXCEPT !.description = description]
                                 ELSE characters[k]]

SetImage(characters, id, image) ==
    [k \in 1..Len(characters) |->
        IF characters[k].id = id THEN [characters[k] EXCEPT !.image = image]
                                 ELSE characters[k]]

CharacterIds(characters) == {characters[k].id : k \in 1..Len(characters)}

\* The cards are shown on the form's characters section: there is no
\* output, loading is false and the project has a list to map over.
CardsShown ==
    /\ ~HasOutput(project)
    /\ ~loading
    /\ "characters" \notin project.undefined

\* A request of the form: the reader of an uploaded image ("reading"), the
\* analysis of it ("analysis") or the auto-generation of the list
\* ("characters"), for card `char`, with the config.characters of the
\* handler's render.
FormJob(id, kind, char, characters) ==
    [id |-> id, kind |-> kind, batch |-> FALSE, idx |-> 0, scene |-> EmptyScene,
     overlapped |-> {}, char |-> char, characters |-> characters]

\* Add Character: a card with empty name and description
addCharacter ==
    /\ CardsShown
    /\ Len(project.config.characters) < MaxChars
    /\ nextReq <= MaxReqs
    /\ project' = WithCharacters(project,
                      Append(project.config.characters, Character(nextReq, 0, 0)))
    /\ nextReq' = nextReq + 1
    /\ UNCHANGED <<retryVars, libVars, loading, error, audioLoadingIndex, imageLoadingIndex,
                   generatingAllAudio, generatingAllImages, jobs, audioBatch,
                   imageBatch, resetReq>>

\* The description box of a card: updateCharacter(id, { description })
updateCharacter(id) ==
    /\ CardsShown
    /\ id \in CharacterIds(project.config.characters)
    /\ nextReq <= MaxReqs
    /\ project' = WithCharacters(project,
                      SetDescription(project.config.characters, id, nextReq))
    /\ nextReq' = nextReq + 1
    /\ UNCHANGED <<retryVars, libVars, loading, error, audioLoadingIndex, imageLoadingIndex,
                   generatingAllAudio, generatingAllImages, jobs, audioBatch,
                   imageBatch, resetReq>>

\* The bin of a card
removeCharacter(id) ==
    /\ CardsShown
    /\ id \in CharacterIds(project.config.characters)
    /\ project' = WithCharacters(project,
                      SelectSeq(project.config.characters, LAMBDA c : c.id # id))
    /\ UNCHANGED <<retryVars, libVars, loading, error, audioLoadingIndex, imageLoadingIndex,
                   generatingAllAudio, generatingAllImages, jobs, audioBatch,
                   imageBatch, nextReq, resetReq>>

\* handleCharacterImageUpload: a file is chosen and the reader starts
handleCharacterImageUpload(id) ==
    /\ CardsShown
    /\ id \in CharacterIds(project.config.characters)
    /\ nextReq <= MaxReqs
    /\ jobs' = jobs \cup {FormJob(nextReq, "reading", id, project.config.characters)}
    /\ nextReq' = nextReq + 1
    /\ UNCHANGED <<retryVars, libVars, project, loading, error, audioLoadingIndex,
                   imageLoadingIndex, generatingAllAudio, generatingAllImages, audioBatch,
                   imageBatch, resetReq>>

\* reader.onload up to its await: updateCharacter(id, { image: base64 }),
\* then the request of analyzeImage
readerLoaded(j) ==
    /\ j \in jobs
    /\ j.kind = "reading"
    /\ project' = WithCharacters(project, SetImage(j.characters, j.char, j.id))
    /\ jobs' = (jobs \ {j}) \cup {[j EXCEPT !.kind = "analysis"]}
    /\ UNCHANGED <<retryVars, libVars, loading, error, audioLoadingIndex, imageLoadingIndex,
                   generatingAllAudio, generatingAllImages, audioBatch, imageBatch,
                   nextReq, resetReq>>

\* reader.onload after its await: updateCharacter(id, { description }), or
\* the alert of the catch branch
analysisResolved(j, ok) ==
    /\ j \in jobs
    /\ j.kind = "analysis"
    /\ jobs' = jobs \ {j}
    /\ project' = IF ok THEN WithCharacters(project, SetDescription(j.characters, j.char, j.id))
                        ELSE project
    /\ UNCHANGED <<retryVars, libVars, loading, error, audioLoadingIndex, imageLoadingIndex,
                   generatingAllAudio, generatingAllImages, audioBatch, imageBatch,
                   nextReq, resetReq>>

\* Auto-Generate Cast up to its await; the button is disabled while a
\* request of it is in flight, and the handler returns at once when the
\* premise is empty.
handleAutoGenerateCharacters ==
    /\ CardsShown
    /\ ~\E j \in jobs : j.kind = "characters"
    /\ nextReq <= MaxReqs
    /\ jobs' = jobs \cup {FormJob(nextReq, "characters", 0, project.config.characters)}
    /\ nextReq' = nextReq + 1
    /\ UNCHANGED <<retryVars, libVars, project, loading, error, audioLoadingIndex,
                   imageLoadingIndex, generatingAllAudio, generatingAllImages, audioBatch,
                   imageBatch, resetReq>>

\* The id of the k-th character of the response to request req
GeneratedId(req, k) == req * (MaxChars + 1) + k

\* Auto-Generate Cast after its await: onUpdate({ characters: chars }) with
\* the n characters of the response, or the alert of the catch branch
charactersResolved(j, ok, n) ==
    /\ j \in jobs
    /\ j.kind = "characters"
    /\ jobs' = jobs \ {j}
    /\ project' = IF ok THEN WithCharacters(project,
                                [k \in 1..n |-> Character(GeneratedId(j.id, k), j.id, 0)])
                        ELSE project
    /\ UNCHANGED <<retryVars, libVars, loading, error, audioLoadingIndex, imageLoadingIndex,
                   generatingAllAudio, generatingAllImages, audioBatch, imageBatch,
                   nextReq, resetReq>>

CharacterNext ==
    \/ addCharacter
    \/ \E id \in CharacterIds(project.config.characters) : updateCharacter(id)
    \/ \E id \in CharacterIds(project.config.characters) : removeCharacter(id)
    \/ \E id \in CharacterIds(project.config.characters) : handleCharacterImageUpload(id)
    \/ \E j \in jobs : readerLoaded(j)
    \/ \E j \in jobs, ok \in BOOLEAN : analysisResolved(j, ok)
    \/ handleAutoGenerateCharacters
    \/ \E j \in jobs, ok \in BOOLEAN, n \in 1..MaxChars : charactersResolved(j, ok, n)

\* The characters section of the form of a new project.
CharacterSpec == Init /\ [][CharacterNext]_vars

-----------------------------------------------------------------------------
\* The call sites: which key each handler passes to the service function.

\* The apiKey argument: generateScript, the audio and the image handlers
\* pass project.apiKey; handleSuggest, handleAutoGenerateCharacters and
\* handleCharacterImageUpload pass no key (StepConfig has no key prop).
ApiKeyArg(kind, p) == IF kind \in Kinds THEN p.apiKey ELSE 0

\* A handler calls its service function: callWithRetry(fn) starts with the
\* default arguments.
invoke(kind) ==
    /\ gReq.kind = "none"
    /\ gReq' = [kind |-> kind, apiKey |-> ApiKeyArg(kind, project), prompt |-> 1]
    /\ rArgs' = [retries |-> DefaultRetries, delay |-> DefaultDelay]
    /\ rPc' = "calling"
    /\ rRetries' = DefaultRetries
    /\ rDelay' = DefaultDelay
    /\ UNCHANGED <<appVars, pureVars, envKey, gCalls, rPlan, rAttempts, rWaits, rResult>>

CallNext ==
    \/ \E kind \in Kinds \cup FormKinds : invoke(kind)
    \/ ServiceNext

\* The project holds a key or not (the key box of the settings), the build
\* has a default key or not, and no request has been made.
CallSpecInit ==
    /\ \E key \in Keys : AppStart(InitialProject(key))
    /\ RetryIdle /\ EnvInit /\ PromptIdle /\ WavIdle

\* One request of any of the six service functions, from its handler on.
CallSpec == CallSpecInit /\ [][CallNext]_vars

\* Every request of a running batch resolves or rejects in the end
\* (callWithRetry gives up after its retries).
BatchCallsSettle ==
    /\ WF_vars(\E j \in jobs, ok \in BOOLEAN : audioBatchResolved(j, ok))
    /\ WF_vars(\E j \in jobs, ok \in BOOLEAN : imageBatchResolved(j, ok))

\* The studio when the requests of the batches settle.
BatchSpec == Init /\ [][Next]_vars /\ BatchCallsSettle

-----------------------------------------------------------------------------
\* Vocabulary of the properties

Slot(scene, kind) == IF kind = "audio" THEN scene.audioData ELSE scene.imageUrl

InFlight(kind) == {j \in jobs : j.kind = kind}

\* The step is the continuation of single-scene job j with a successful response.
SingleMerged(j) ==
    \/ j.kind = "audio" /\ audioResolved(j, TRUE)
    \/ j.kind = "image" /\ imageResolved(j, TRUE)

\* The step is a turn of a generate-all loop with a successful response for j.
BatchMerged(j) ==
    \/ j.kind = "audio" /\ audioBatchResolved(j, TRUE)
    \/ j.kind = "image" /\ imageBatchResolved(j, TRUE)

\* C1: when single-scene job j resolves successfully and a single-scene job q
\* of the other kind for the same scene overlapped with it and has already
\* resolved successfully (its payload is in the scene), the scene holds both
\* payloads after the step.
C1_BothPayloadsKept ==
    [][\A j \in jobs : \A q \in j.overlapped :
         ( /\ SingleMerged(j)
           /\ HasOutput(project)
           /\ q \notin {x.id : x \in jobs}
           /\ Slot(At(project.output.scenes, j.idx), OtherKind(j.kind)) = q )
         => /\ Slot(At(project'.output.scenes, j.idx), j.kind) = j.id
            /\ Slot(At(project'.output.scenes, j.idx), OtherKind(j.kind)) = q]_vars

\* C2: no scene of the project ever holds the payload of an audio or image
\* request that was started before the last start over.
C2_NoAbandonedResult ==
    \A k \in 1..Len(project.output.scenes) :
        LET s == project.output.scenes[k] IN
            /\ s.audioData = 0 \/ s.audioData >= resetReq
            /\ s.imageUrl = 0 \/ s.imageUrl >= resetReq

\* What a merge of kind `kind` at position i may change: nothing but that
\* slot of that scene.
MergeFrame(i, kind) ==
    /\ project'.config = project.config
    /\ project'.voiceConfig = project.voiceConfig
    /\ project'.imageStyle = project.imageStyle
    /\ project'.mediaSettings = project.mediaSettings
    /\ project'.apiKey = project.apiKey
    /\ project'.output.title = project.output.title
    /\ \A k \in 1..Len(project.output.scenes) :
          k # i => At(project'.output.scenes, k) = project.output.scenes[k]
    /\ LET old == At(project.output.scenes, i)
           new == At(project'.output.scenes, i)
       IN  /\ new.sceneNumber = old.sceneNumber
           /\ new.text = old.text
           /\ Slot(new, OtherKind(kind)) = Slot(old, OtherKind(kind))

\* C3: a merge of a job's result (single-scene or batch item) for scene i
\* leaves every other scene and every other project field as they were, and
\* within scene i changes the targeted slot only.
C3_MergeFrame ==
    [][\A j \in jobs :
         ((SingleMerged(j) \/ BatchMerged(j)) /\ HasOutput(project))
             => MergeFrame(j.idx, j.kind)]_vars

\* The batch b ended over the script it was started over, with exactly one
\* failed job: every position was run and every position whose job succeeded
\* holds a payload of the batch's kind.
BatchSurvived(b, p, kind) ==
    (Cardinality(b.failed) = 1 /\ HasOutput(p) /\ p.output.title = b.title)
        => /\ b.ok \cup b.failed = (1..b.n) \ b.holes
           /\ \A i \in b.ok : Slot(At(p.output.scenes, i), kind) # 0

\* C4: when a generate-all batch in which exactly one job failed ends, the
\* jobs of all scenes were run and every scene other than the failed one
\* holds its generated payload.
C4_BatchSurvivesFailure ==
    [][ /\ (generatingAllAudio /\ ~generatingAllAudio')
            => BatchSurvived(audioBatch', project', "audio")
        /\ (generatingAllImages /\ ~generatingAllImages')
            => BatchSurvived(imageBatch', project', "image") ]_vars

BatchOf(kind) == IF kind = "audio" THEN audioBatch ELSE imageBatch

GeneratingAll(kind) == IF kind = "audio" THEN generatingAllAudio ELSE generatingAllImages

BatchJobs(kind) == {j \in jobs : j.batch /\ j.kind = kind}

\* While a batch runs, one request of it is in flight, for the position the
\* loop stands at, and the jobs of all earlier positions have resolved.
BatchSequential(kind) ==
    /\ Cardinality(BatchJobs(kind)) <= 1
    /\ GeneratingAll(kind) <=> BatchJobs(kind) # {}
    /\ \A j \in BatchJobs(kind) :
          /\ j.idx = BatchOf(kind).i
          /\ BatchOf(kind).ok \cup BatchOf(kind).failed
                = (1..(j.idx - 1)) \ BatchOf(kind).holes

\* A step in which batch job j resolves (b, b2: the loop state before and
\* after): the loop moves on to a later position, a request it starts is for
\* that position, and a successful result is in the project after the step.
BatchTurn(j, b, b2, kind) ==
    (j.batch /\ j.kind = kind /\ j \notin jobs')
        => /\ b2.i > j.idx
           /\ \A j2 \in jobs' \ jobs :
                 (j2.batch /\ j2.kind = kind) => (j2.idx = b2.i /\ j2.idx > j.idx)
           /\ (j.idx \in b2.ok /\ HasOutput(project))
                 => Slot(At(project'.output.scenes, j.idx), kind) = j.id

-----------------------------------------------------------------------------
\* Properties of callWithRetry

RECURSIVE Pow2(_)
Pow2(n) == IF n = 0 THEN 1 ELSE 2 * Pow2(n - 1)

RetryDone == rPc \in {"returned", "thrown"}

\* A failure with a rate-limit / overload signature.
TransientFailure(o) ==
    /\ ~o.ok
    /\ \/ o.status \in {429, 503}
       \/ Includes(o.message, T429)
       \/ Includes(o.message, T503)
       \/ Includes(o.message, TOverloaded)

PermanentFailure(o) == ~o.ok /\ ~TransientFailure(o)

\* fn fails transiently at each of its first k calls.
TransientPrefix(k) == \A m \in 1..k : TransientFailure(rPlan[m])

\* C7: when fn fails transiently k <= retries times and then succeeds, the
\* call returns the value of call k + 1 of fn, after exactly k + 1 calls.
C7_SuccessAfterTransients ==
    RetryDone =>
        \A k \in 0..rArgs.retries :
            (TransientPrefix(k) /\ rPlan[k + 1].ok)
                => /\ rPc = "returned"
                   /\ rResult = [at |-> k + 1, outcome |-> rPlan[k + 1]]
                   /\ rAttempts = k + 1

\* Three transient failures, then the fourth call's value is returned.
C7_Witness ==
    /\ rPc = "returned"
    /\ rArgs.retries = DefaultRetries
    /\ rAttempts = DefaultRetries + 1

\* C8: when fn fails transiently at every call, the call makes exactly
\* retries + 1 calls of fn and throws the error of the last one.
C8_FinalErrorAfterAllAttempts ==
    /\ rAttempts <= rArgs.retries + 1
    /\ (RetryDone /\ TransientPrefix(rArgs.retries + 1))
          => /\ rPc = "thrown"
             /\ rAttempts = rArgs.retries + 1
             /\ rResult = [at |-> rArgs.retries + 1, outcome |-> rPlan[rArgs.retries + 1]]

\* Four transient failures with the default budget.
C8_Witness ==
    /\ rPc = "thrown"
    /\ rArgs.retries = DefaultRetries
    /\ rAttempts = DefaultRetries + 1
    /\ TransientFailure(rResult.outcome)

\* C9: when call k + 1 of fn fails with a non-transient error, that error is
\* thrown at once: no further call of fn, and no wait beyond the k waits
\* that went before.
C9_PermanentFailsFast ==
    \A k \in 0..MaxRetriesArg :
        (TransientPrefix(k) /\ PermanentFailure(rPlan[k + 1]) /\ rAttempts >= k + 1)
            => /\ rPc = "thrown"
               /\ rAttempts = k + 1
               /\ rResult = [at |-> k + 1, outcome |-> rPlan[k + 1]]
               /\ Len(rWaits) = k

\* A non-transient error at the second call, with two retries left.
C9_Witness ==
    /\ rPc = "thrown"
    /\ rArgs.retries = DefaultRetries
    /\ rAttempts = 2
    /\ PermanentFailure(rResult.outcome)
    /\ Len(rWaits) = 1

\* C10: the i-th wait is delay * 2^(i-1); there is a wait between two calls
\* of fn and nowhere else: none before the first call, none after the last.
C10_BackoffDelays ==
    /\ \A i \in 1..Len(rWaits) : rWaits[i] = rArgs.delay * Pow2(i - 1)
    /\ Len(rWaits) <= rArgs.retries
    /\ rPc \in {"calling", "waiting"} => Len(rWaits) = rAttempts
    /\ RetryDone => Len(rWaits) = rAttempts - 1

\* The default call waited 1000, 2000 and 4000 ms and then gave up.
C10_Witness ==
    /\ rPc = "thrown"
    /\ rArgs = [retries |-> DefaultRetries, delay |-> DefaultDelay]
    /\ rWaits = <<1000, 2000, 4000>>

-----------------------------------------------------------------------------
\* Properties of generateImage's two tiers

ImageCalls == {i \in 1..Len(gCalls) : gCalls[i].model \in {ProImageModel, FlashImageModel}}

\* The tiers of every run of fn: the pro tier is asked first; the flash tier
\* is asked only right after a failed pro call, with the same prompt; a
\* failed pro call is followed by a flash call (or the flash call is pending);
\* a successful pro call ends the request.
TierOrder ==
    /\ \A i \in ImageCalls :
          /\ gCalls[i].prompt = gReq.prompt
          /\ (i = 1 \/ gCalls[i - 1].model = FlashImageModel)
                => gCalls[i].model = ProImageModel
          /\ gCalls[i].model = FlashImageModel
                => /\ i > 1
                   /\ gCalls[i - 1].model = ProImageModel
                   /\ ~gCalls[i - 1].ok
                   /\ gCalls[i - 1].prompt = gCalls[i].prompt
          /\ (gCalls[i].model = ProImageModel /\ ~gCalls[i].ok)
                => IF i = Len(gCalls) THEN rPc = "flash"
                                      ELSE gCalls[i + 1].model = FlashImageModel
          /\ (gCalls[i].model = ProImageModel /\ gCalls[i].ok)
                => (i = Len(gCalls) /\ rPc = "returned")
    /\ rPc = "pro" => (gCalls = << >> \/ gCalls[Len(gCalls)].model = FlashImageModel)

\* The request failed after its flash tier failed.
ThrownAfterFlash ==
    /\ gCalls # << >>
    /\ gCalls[Len(gCalls)].model = FlashImageModel
    /\ ~gCalls[Len(gCalls)].ok

-----------------------------------------------------------------------------
\* Properties of script generation

\* C12: a response is stored only if its scenes are numbered 1, 2, ...,
\* sceneCount, for the sceneCount of the config its request was made with.
C12_StoredSceneCount ==
    [][\A j \in jobs, r \in StoryResponses :
         (scriptResponded(j, r) /\ project'.output # project.output)
            => r.numbers = Dense(j.config.sceneCount)]_vars

\* C13: a response that does not match the StoryOutput schema ends script
\* generation with the error set and leaves the project's output as it was.
C13_SchemaMismatchIsFatal ==
    [][\A j \in jobs, r \in StoryResponses :
         (scriptResponded(j, r) /\ ~(Parses(r) /\ r.schema))
            => (project'.output = project.output /\ error' = "script")]_vars

\* C14: when script generation fails, the project is as it was before the
\* call; the step sets the error, resets the loading flag and changes no
\* other state of the studio.
C14_FailureLeavesProject ==
    [][\A j \in jobs, r \in StoryResponses :
         (scriptResponded(j, r) /\ ~Parses(r))
            => /\ project' = project
               /\ error' = "script"
               /\ loading' = FALSE
               /\ UNCHANGED <<audioLoadingIndex, imageLoadingIndex, generatingAllAudio,
                              generatingAllImages, audioBatch, imageBatch>>]_vars

\* A script request failed and the output an earlier request stored is still there.
C14_Witness ==
    /\ error = "script"
    /\ ~loading
    /\ jobs = {}
    /\ HasOutput(project)
    /\ project.output.title < nextReq - 1

-----------------------------------------------------------------------------
\* Properties of the image prompt

\* Two letters that differ at most in case.
SameLetter(a, b) == toLowerCase(<<a>>) = toLowerCase(<<b>>)

\* s occurs in t at some offset, letter by letter, whatever the case.
OccursIn(s, t) ==
    \E off \in 0..(Len(t) - Len(s)) : \A i \in 1..Len(s) : SameLetter(s[i], t[off + i])

\* Some name the scene lists and the character's name are, case-insensitively,
\* one a substring of the other.
Matched(c) ==
    \E i \in 1..Len(pIn.characterNames) :
        OccursIn(pIn.characterNames[i], c.name) \/ OccursIn(c.name, pIn.characterNames[i])

CharacterBlocks(prompt) == {i \in 1..Len(prompt) : prompt[i].part = "character"}

\* The prompt has a character block with this character's name and its
\* whole description.
Shown(c, prompt) ==
    \E i \in CharacterBlocks(prompt) :
        prompt[i].name = c.name /\ prompt[i].text = c.description

\* The character blocks of the prompt are those of the matched characters.
MatchedOnly(res) ==
    /\ \A k \in 1..Len(pIn.characters) :
          Shown(pIn.characters[k], res.prompt) <=> Matched(pIn.characters[k])
    /\ Cardinality(CharacterBlocks(res.prompt))
          = Cardinality({k \in 1..Len(pIn.characters) : Matched(pIn.characters[k])})

\* C15: a character's description is in the built prompt, in a character
\* block, exactly when some name of the scene and the character's name are,
\* case-insensitively, one a substring of the other; the single-scene job and
\* the batch resolve the same active characters for the same scene.
C15_ActiveCharacters ==
    /\ pSingle # NotBuilt => MatchedOnly(pSingle)
    /\ pBatch # NotBuilt => MatchedOnly(pBatch)
    /\ (pSingle # NotBuilt /\ pBatch # NotBuilt) => pSingle.active = pBatch.active

\* Both handlers built the prompt of a scene that lists "al": the character
\* "A" is matched through a partial, case-insensitive match, "La" is not.
C15_Witness ==
    /\ pIn.characterNames = << <<"a", "l">> >>
    /\ Len(pIn.characters) = 2
    /\ pIn.characters[1].name = <<"A">>
    /\ pIn.characters[2].name = <<"L", "a">>
    /\ pSingle # NotBuilt
    /\ pBatch # NotBuilt
    /\ Len(pSingle.active) = 1

Position(prompt, part) == {i \in 1..Len(prompt) : prompt[i].part = part}

\* The style block, then every character block, then the scene text.
BlocksInOrder(prompt) ==
    /\ Cardinality(Position(prompt, "style")) = 1
    /\ Cardinality(Position(prompt, "scene")) = 1
    /\ \A i \in Position(prompt, "style"), k \in CharacterBlocks(prompt) : i < k
    /\ \A k \in CharacterBlocks(prompt), m \in Position(prompt, "scene") : k < m
    /\ \A i \in Position(prompt, "style"), m \in Position(prompt, "scene") : i < m

Built == {res \in {pSingle, pBatch} : res # NotBuilt}

\* C16 as stated: the style block comes before all character blocks, these
\* before the scene text, and the scene text is the last thing of the prompt.
C16_SceneTextLast ==
    \A res \in Built :
        /\ BlocksInOrder(res.prompt)
        /\ res.prompt[Len(res.prompt)].part = "scene"

\* C16, amended: the style block comes before all character blocks, these
\* before the scene text, and the scene text is the last of the blocks: after
\* it comes the closing instruction only, and no style or character block.
C16_BlockOrder ==
    \A res \in Built :
        /\ BlocksInOrder(res.prompt)
        /\ \A m \in Position(res.prompt, "scene") :
              /\ m = Len(res.prompt) - 1
              /\ res.prompt[m].text = pIn.basePrompt
              /\ res.prompt[m + 1].part = "instruction"

\* A prompt with two character blocks has been built.
C16_Witness ==
    /\ pSingle # NotBuilt
    /\ Cardinality(CharacterBlocks(pSingle.prompt)) = 2

-----------------------------------------------------------------------------
\* Properties of the error message

\* The step is the continuation of request j after it failed.
Failed(j) ==
    \/ \E n \in 1..MaxScenes : scriptResolved(j, FALSE, n)
    \/ audioResolved(j, FALSE)
    \/ imageResolved(j, FALSE)
    \/ audioBatchResolved(j, FALSE)
    \/ imageBatchResolved(j, FALSE)

\* The label of the message a failure of a request of this kind shows.
LabelOf(kind) == kind

\* Without a key, one call of generateStory, generateSpeech or generateImage
\* throws the configuration error from its first call of fn: no request to
\* the service, no wait, no second call of fn, no tier asked.
MissingKeyFailsFast ==
    (KeyOf(gReq.apiKey) = 0 /\ rPc # "calling")
        => /\ rPc = "thrown"
           /\ rResult = [at |-> 1, outcome |-> MissingKey]
           /\ rAttempts = 1
           /\ gCalls = << >>
           /\ rWaits = << >>

\* C17: when neither the project nor the build has a key, every request
\* (script, single-scene job, batch item) fails, and the step in which it
\* fails leaves its error displayed.
C17_MissingKeySurfaced ==
    [][\A j \in jobs :
         (~Credential /\ j.id \notin {q.id : q \in jobs'})
            => (Failed(j) /\ error' = LabelOf(j.kind))]_vars

\* C18 as stated: a displayed error changes only when the user dismisses it
\* or a new error replaces it.
C18_ErrorStaysUntilDismissed ==
    [][(error # "none" /\ error' # error) => (dismissError \/ error' # "none")]_vars

\* C18, amended: a displayed error stays, unchanged, until the user dismisses
\* it, a new error replaces it, or the user starts a script generation, a
\* generate-all batch or start over; no other step (a single-scene job
\* starting, a job succeeding, the back link) removes it.
C18_ErrorClearedOnlyAtStart ==
    [][(error # "none" /\ error' # error) =>
         \/ error' # "none"
         \/ dismissError
         \/ generateScript
         \/ handleGenerateAllAudio
         \/ handleGenerateAllImages
         \/ goHome]_vars

\* An audio error is displayed and a later audio request is in flight: every
\* audio failure resets audioLoadingIndex, so the error outlived the step
\* that set the index again.
C18_Witness ==
    /\ error = "audio"
    /\ audioLoadingIndex # NoIndex
    /\ \E j \in jobs : j.kind = "audio"

\* C19: when the audio or image job of a scene fails, single or batch item,
\* the step sets the error of that kind and leaves the project as it was,
\* and a batch goes on to its next scene.
C19_SceneFailureSurfaced ==
    [][\A j \in jobs :
         (j.kind \in {"audio", "image"} /\ Failed(j))
            => /\ error' = LabelOf(j.kind)
               /\ project' = project
               /\ j.batch => BatchOf(j.kind)'.i > j.idx]_vars

-----------------------------------------------------------------------------
\* Properties of addWavHeader: the header as a reader of the file parses it

\* The little-endian unsigned numbers and the text at an offset.
U16At(bytes, offset) == bytes[offset + 1] + 256 * bytes[offset + 2]

U32At(bytes, offset) == U16At(bytes, offset) + 65536 * U16At(bytes, offset + 2)

TextAt(bytes, offset) == SubSeq(bytes, offset + 1, offset + 4)

\* The signed 16-bit sample at an offset.
S16At(bytes, offset) ==
    IF U16At(bytes, offset) >= 32768 THEN U16At(bytes, offset) - 65536
                                     ELSE U16At(bytes, offset)

\* C20: for n samples and a sample rate, addWavHeader returns 44 + 2n bytes
\* whose header reads: RIFF size 36 + 2n, WAVE, fmt chunk of 16 bytes, PCM,
\* 1 channel, the sample rate, byte rate = sampleRate * 2, block alignment 2,
\* 16 bits per sample, data size 2n; the bytes from offset 44 on are the
\* samples, in order, and nothing else.
C20_WavRoundTrip ==
    wOut # << >> =>
        LET n == Len(wIn.samples) IN
        /\ Len(wOut) = 44 + 2 * n
        /\ \A k \in 1..Len(wOut) : wOut[k] \in 0..255
        /\ TextAt(wOut, 0) = RIFF
        /\ U32At(wOut, 4) = 36 + 2 * n
        /\ TextAt(wOut, 8) = WAVE
        /\ TextAt(wOut, 12) = FMT
        /\ U32At(wOut, 16) = 16
        /\ U16At(wOut, 20) = 1
        /\ U16At(wOut, 22) = 1
        /\ U32At(wOut, 24) = wIn.sampleRate
        /\ U32At(wOut, 28) = wIn.sampleRate * 2
        /\ U16At(wOut, 32) = 2
        /\ U16At(wOut, 34) = 16
        /\ TextAt(wOut, 36) = DATA
        /\ U32At(wOut, 40) = 2 * n
        /\ \A i \in 1..n : S16At(wOut, 44 + 2 * (i - 1)) = wIn.samples[i]

\* Two samples, a negative one among them, encoded at 24000 Hz.
C20_Witness ==
    /\ wIn.samples = <<-32768, 255>>
    /\ wIn.sampleRate = 24000
    /\ Len(wOut) = 48
    /\ SubSeq(wOut, 45, 48) = <<0, 128, 255, 0>>

-----------------------------------------------------------------------------
\* Properties of opening a saved project

\* The project p opened from document doc has every optional property, and
\* each one the document lacks holds the initial value.
Defaulted(doc, p) ==
    /\ p.undefined = {}
    /\ "mediaSettings" \in doc.undefined
          => p.mediaSettings = InitialProject(0).mediaSettings
    /\ "voiceConfig" \in doc.undefined => p.voiceConfig = InitialProject(0).voiceConfig
    /\ "imageStyle" \in doc.undefined => p.imageStyle = InitialProject(0).imageStyle
    /\ "characters" \in doc.undefined
          => p.config.characters = InitialProject(0).config.characters

\* C21: after a document is opened, from a file or from the archive, the
\* project has every optional property, those the document lacks with their
\* initial values.
C21_ImportFillsDefaults ==
    [][\A doc \in Documents :
         (loadFromArchive(doc) \/ loadProjectFile(TRUE, doc)) => Defaulted(doc, project')]_vars

\* C29: the loading flag is true only while a script request is in flight,
\* so that the response, whatever it is, sets it back to false.
C29_LoadingHasRequest ==
    loading => \E j \in jobs : j.kind = "script"

-----------------------------------------------------------------------------
\* Properties of the loading indices

LoadingIndex(kind) == IF kind = "audio" THEN audioLoadingIndex ELSE imageLoadingIndex

\* The jobs of a kind started since the last start over.
Current(kind) == {j \in InFlight(kind) : j.id >= resetReq}

\* C22: in every state the loading index of a kind is the scene of every job
\* of that kind in flight, and it is null only when no job of that kind is
\* in flight (jobs abandoned by a start over left aside).
C22_IndexAccurate ==
    \A kind \in {"audio", "image"} :
        /\ \A j \in Current(kind) : LoadingIndex(kind) = j.idx
        /\ LoadingIndex(kind) = NoIndex => Current(kind) = {}

-----------------------------------------------------------------------------
\* Properties of the character cards

\* The card with this id in a list.
CardOf(characters, id) ==
    characters[CHOOSE k \in 1..Len(characters) : characters[k].id = id]

\* The step removes the card or changes its description or image.
CardChanged(id) ==
    \/ id \notin CharacterIds(project'.config.characters)
    \/ CardOf(project'.config.characters, id) # CardOf(project.config.characters, id)

\* The step is the upload or the analysis of a reference image for this
\* card, and of the card it changes the image, or the description, only.
ImageStep(id) ==
    \E j \in jobs :
        /\ j.char = id
        /\ id \in CharacterIds(project'.config.characters)
        /\ \/ /\ readerLoaded(j)
              /\ CardOf(project'.config.characters, id)
                    = [CardOf(project.config.characters, id) EXCEPT !.image = j.id]
           \/ /\ analysisResolved(j, TRUE)
              /\ CardOf(project'.config.characters, id)
                    = [CardOf(project.config.characters, id) EXCEPT !.description = j.id]

\* C23: a card is removed or its description or image changes only in a
\* step that is the user's edit or removal of that card, the upload or the
\* analysis of a reference image for that card (which changes that field of
\* the card only, so the analysis keeps the uploaded image), or the
\* completion of an auto-generation of the list.
C23_SignatureChanges ==
    [][\A id \in CharacterIds(project.config.characters) :
         CardChanged(id) =>
            \/ updateCharacter(id)
            \/ removeCharacter(id)
            \/ ImageStep(id)
            \/ \E j \in jobs, n \in 1..MaxChars : charactersResolved(j, TRUE, n)]_vars

-----------------------------------------------------------------------------
\* Properties of retry and tier fallback together

\* C24: when the pro tier fails, the request goes on to the flash tier only
\* if the failure is not transient or no retry is left; after a transient
\* failure with retries left it waits and is retried (on the pro tier).
C24_FallbackWrapsRetry ==
    [][\A o \in Responses :
         (proResponds(o) /\ ~o.ok)
            => IF TransientFailure(o) /\ ~Exhausted(rRetries)
                  THEN rPc' = "waiting"
                  ELSE rPc' = "flash"]_vars

\* A capacity / billing answer: 403.
Denied(call) == ~call.ok /\ call.status = 403

\* C25: within one image request, no call goes to the pro tier after a pro
\* call was denied.
C25_DeniedTierNotAskedAgain ==
    \A i \in 1..Len(gCalls), k \in 1..Len(gCalls) :
        (i < k /\ gCalls[i].model = ProImageModel /\ Denied(gCalls[i]))
            => gCalls[k].model = FlashImageModel

-----------------------------------------------------------------------------
\* Properties of the key in use

\* C26: when the project holds a key, every request is made with that key,
\* and none ends with the missing-key error.
C26_OverrideKeyUsed ==
    (project.apiKey # 0 /\ gReq.kind # "none")
        => /\ KeyOf(gReq.apiKey) = project.apiKey
           /\ ~(rPc = "thrown" /\ rResult.outcome = MissingKey)

-----------------------------------------------------------------------------
\* Properties of the scene list

\* C27: the step in which an audio or image job's result is merged (single
\* scene or batch item) leaves the scene list as long as it was, leaves
\* every scene's sceneNumber and text as they were, and leaves no entry
\* without them.
C27_SceneListStable ==
    [][\A j \in jobs :
         ((SingleMerged(j) \/ BatchMerged(j)) /\ HasOutput(project))
            => /\ Len(project'.output.scenes) = Len(project.output.scenes)
               /\ \A k \in 1..Len(project.output.scenes) :
                     /\ At(project'.output.scenes, k).sceneNumber
                           = project.output.scenes[k].sceneNumber
                     /\ At(project'.output.scenes, k).text = project.output.scenes[k].text
               /\ \A k \in 1..Len(project'.output.scenes) :
                     /\ project'.output.scenes[k].sceneNumber # 0
                     /\ project'.output.scenes[k].text # 0]_vars

-----------------------------------------------------------------------------
\* Properties of a whole batch

\* A step of the running batch of a kind (b, b2: its loop state before and
\* after): the captured list stays the same and the loop moves on to a later
\* position; when the step ends the batch, every scene of the captured list
\* had its job, each one once, and the flag and the index are reset.
BatchRuns(kind, b, b2) ==
    GeneratingAll(kind) =>
        /\ b2.n = b.n /\ b2.holes = b.holes
        /\ b2 # b => /\ b2.i > b.i
                     /\ b2.ok \cup b2.failed = (b.ok \cup b.failed) \cup {b.i}
                     /\ b.i \notin b.ok \cup b.failed
        /\ ~GeneratingAll(kind)' =>
              /\ b2.ok \cup b2.failed = (1..b.n) \ b.holes
              /\ b2.ok \cap b2.failed = {}
              /\ LoadingIndex(kind)' = NoIndex

\* C28: a running batch ends when its requests settle; it runs one job for
\* each scene of the list it captured at its start, each once, and at its
\* end the generating-all flag is false and the loading index null, whatever
\* jobs failed.
C28_BatchTerminates ==
    /\ generatingAllAudio ~> ~generatingAllAudio
    /\ generatingAllImages ~> ~generatingAllImages
    /\ [][/\ BatchRuns("audio", audioBatch, audioBatch')
          /\ BatchRuns("image", imageBatch, imageBatch')]_vars

\* An audio batch over two scenes has ended; the job of the first scene
\* failed, the second one's succeeded.
C28_Witness ==
    /\ ~generatingAllAudio
    /\ audioLoadingIndex = NoIndex
    /\ audioBatch.n = 2
    /\ audioBatch.i = 3
    /\ audioBatch.failed = {1}
    /\ audioBatch.ok = {2}

-----------------------------------------------------------------------------
\* Properties of the characters without a name

\* The characters of the scene's project that have the empty name.
Unnamed == {k \in 1..Len(pIn.characters) : pIn.characters[k].name = << >>}

\* C30: in a scene that lists at least one name, every stored character with
\* the empty name is active and has its block in the prompt; in a scene that
\* lists no name, no character is active and the prompt has no character
\* block, whoever builds the prompt.
C30_UnnamedCharacterActive ==
    \A res \in Built :
        IF Len(pIn.characterNames) > 0
           THEN \A k \in Unnamed :
                   /\ \E i \in 1..Len(res.active) : res.active[i] = pIn.characters[k]
                   /\ Shown(pIn.characters[k], res.prompt)
           ELSE /\ res.active = << >>
                /\ CharacterBlocks(res.prompt) = {}
                /\ Position(res.prompt, "characters") = {}

\* The scene lists "A", the only stored character has no name, and the
\* single-scene handler built a prompt with that character's block.
C30_Witness ==
    /\ pIn.characterNames = << <<"A">> >>
    /\ Len(pIn.characters) = 1
    /\ pIn.characters[1].name = << >>
    /\ pSingle # NotBuilt
    /\ pSingle.active = pIn.characters
    /\ Cardinality(CharacterBlocks(pSingle.prompt)) = 1

====
